---- MODULE Spec2Model ----
(***************************************************************************)
(* Model of analyze.py (HPLRender): binResultsBy, minMaxAvgPerBin and      *)
(* getBestBin, and the caller that runs them on a list of HPLResults.      *)
(*                                                                         *)
(* A Python dict is a sequence of [key, contents] items in insertion       *)
(* order.  An HPLResult is a record [id, k, v]: id is the object identity  *)
(* (its position in the parsed list), k what binningFunction returns on    *)
(* it, v what statFunction returns on it.  A mean is the exact quotient    *)
(* sum/count, kept as a fraction in lowest terms.                          *)
(***************************************************************************)
EXTENDS Integers, Sequences, FiniteSets

\* ---- bounds ----
MaxLen == 3
MaxKey == 3
MaxVal == 1

\* ---- program constants (analyze.py:8-10) ----
MMAMin == 0
MMAMax == 1
MMAAvg == 2

\* k of a result on which binningFunction raises
Malformed == 0

Keys == 1..MaxKey
Values == 0..MaxVal

VARIABLES results, pc, i, binnedLocal, binOut, binnedResults, call

vars == <<results, pc, i, binnedLocal, binOut, binnedResults, call>>

\* ---- outcomes of a call ----
Pending == [status |-> "pending", exc |-> "", value |-> <<>>]
Returned(v) == [status |-> "returned", exc |-> "", value |-> v]
Raised(e) == [status |-> "raised", exc |-> e, value |-> <<>>]

\* ---- the accessors passed in ----
binningFunction(result) == result.k
binningFunctionRaises(result) == result.k = Malformed
statFunction(result) == result.v

\* ---- dict helpers ----
DictKeys(d) == [j \in 1..Len(d) |-> d[j].key]
DictHas(d, key) == \E j \in 1..Len(d) : d[j].key = key
DictIndex(d, key) == CHOOSE j \in 1..Len(d) : d[j].key = key
DictGet(d, key) == d[DictIndex(d, key)].contents

\* defaultdict(list).__getitem__: a missing key is inserted with an empty list
DefaultDictGetItem(d, key) ==
    IF DictHas(d, key) THEN d ELSE Append(d, [key |-> key, contents |-> <<>>])

\* variant: the bin is assigned the new result instead of being appended to
AppendToBinOverwrite(d, key, result) ==
    LET d1 == DefaultDictGetItem(d, key)
        j == DictIndex(d1, key)
    IN [d1 EXCEPT ![j].contents = <<result>>]

\* variant: the result is inserted at the front of its bin
AppendToBinPrepend(d, key, result) ==
    LET d1 == DefaultDictGetItem(d, key)
        j == DictIndex(d1, key)
    IN [d1 EXCEPT ![j].contents = <<result>> \o @]

\* binnedResults[key].append(result), line 22
AppendToBin(d, key, result) ==
    LET d1 == DefaultDictGetItem(d, key)
        j == DictIndex(d1, key)
    IN [d1 EXCEPT ![j].contents = Append(@, result)]

\* ---- builtins ----
RECURSIVE PyMinFrom(_, _, _)
PyMinFrom(s, j, best) ==
    IF j > Len(s) THEN best
    ELSE PyMinFrom(s, j + 1, IF s[j] < best THEN s[j] ELSE best)

\* min(contents): the first smallest item; ValueError on an empty list is
\* raised by the caller of this operator
PyMin(s) == PyMinFrom(s, 2, s[1])

RECURSIVE PyMaxFrom(_, _, _)
PyMaxFrom(s, j, best) ==
    IF j > Len(s) THEN best
    ELSE PyMaxFrom(s, j + 1, IF s[j] > best THEN s[j] ELSE best)

PyMax(s) == PyMaxFrom(s, 2, s[1])

RECURSIVE PySum(_, _)
PySum(s, j) == IF j > Len(s) THEN 0 ELSE s[j] + PySum(s, j + 1)

RECURSIVE Gcd(_, _)
Gcd(a, b) == IF b = 0 THEN a ELSE Gcd(b, a % b)

\* variant: floor division of the sum by the count
StatisticsMeanFloor(s) == [num |-> PySum(s, 1) \div Len(s), den |-> 1]

\* statistics.mean(data): exact sum over count
StatisticsMean(s) ==
    LET total == PySum(s, 1)
        n == Len(s)
        g == Gcd(n, total)
    IN [num |-> total \div g, den |-> n \div g]

MeanLess(a, b) == a.num * b.den < b.num * a.den

\* list(map(statFunction, contents)), line 36
MapStatFunction(contents) == [j \in 1..Len(contents) |-> statFunction(contents[j])]

Rev(s) == [j \in 1..Len(s) |-> s[Len(s) + 1 - j]]

\* the sort key of line 51: lambda x: minMaxAvg.get(x)[MMAAvg]
SortKey(mma, x) == DictGet(mma, x)[MMAAvg + 1]

\* stable insertion of x into the sorted list s: after every item not greater
RECURSIVE InsertSorted(_, _, _, _)
InsertSorted(s, x, mma, j) ==
    IF j > Len(s) THEN Append(s, x)
    ELSE IF MeanLess(SortKey(mma, x), SortKey(mma, s[j]))
         THEN SubSeq(s, 1, j - 1) \o <<x>> \o SubSeq(s, j, Len(s))
         ELSE InsertSorted(s, x, mma, j + 1)

RECURSIVE StableSortFrom(_, _, _, _)
StableSortFrom(s, mma, j, acc) ==
    IF j > Len(s) THEN acc
    ELSE StableSortFrom(s, mma, j + 1, InsertSorted(acc, s[j], mma, 1))

StableSort(s, mma) == StableSortFrom(s, mma, 1, <<>>)

\* list.sort(key=..., reverse=...): stable; with reverse the list is reversed,
\* sorted and reversed again, so equal items keep their original order
ListSort(s, mma, reverse) ==
    IF reverse THEN Rev(StableSort(Rev(s), mma)) ELSE StableSort(s, mma)

\* ---- minMaxAvgPerBin, lines 34-38 ----
\* variant: an empty bin is passed over
MMABodySkipEmpty(frame, j) ==
    LET key == frame.arg[j].key
        contents == MapStatFunction(frame.arg[j].contents)
    IN IF contents = <<>>
       THEN frame
       ELSE [frame EXCEPT !.results = Append(@,
                [key |-> key,
                 contents |-> <<PyMin(contents), PyMax(contents), StatisticsMean(contents)>>])]

\* one pass of the loop body on item j of the mapping passed in; the frame
\* holds the local results dict and the caller's mapping (arg)
MMABody(frame, j) ==
    LET key == frame.arg[j].key
        contents == MapStatFunction(frame.arg[j].contents)
    IN IF contents = <<>>
       THEN [frame EXCEPT !.status = "raised", !.exc = "ValueError"]
       ELSE [frame EXCEPT !.results = Append(@,
                [key |-> key,
                 contents |-> <<PyMin(contents), PyMax(contents), StatisticsMean(contents)>>])]

RECURSIVE MMALoop(_, _)
MMALoop(frame, j) ==
    IF frame.status = "raised" \/ j > Len(frame.arg) THEN frame
    ELSE MMALoop(MMABody(frame, j), j + 1)

minMaxAvgPerBin(mapping) ==
    LET frame == MMALoop([results |-> <<>>, arg |-> mapping, status |-> "running", exc |-> ""], 1)
    IN IF frame.status = "raised"
       THEN [out |-> Raised(frame.exc), arg |-> frame.arg]
       ELSE [out |-> Returned(frame.results), arg |-> frame.arg]

\* ---- getBestBin, lines 48-52 ----
\* variant: reverse = lowerIsBetter
getBestBinWrongDirection(mapping, lowerIsBetter) ==
    LET inner == minMaxAvgPerBin(mapping)
        mma == inner.out.value
        bins == DictKeys(mma)
        sorted == ListSort(bins, mma, lowerIsBetter)
    IN IF inner.out.status = "raised" THEN [out |-> inner.out, arg |-> inner.arg]
       ELSE IF sorted = <<>> THEN [out |-> Raised("IndexError"), arg |-> inner.arg]
       ELSE [out |-> Returned(sorted[1]), arg |-> inner.arg]

\* variant: descending order obtained by reversing the ascending order
getBestBinNaiveReverse(mapping, lowerIsBetter) ==
    LET inner == minMaxAvgPerBin(mapping)
        mma == inner.out.value
        bins == DictKeys(mma)
        sorted == IF lowerIsBetter THEN StableSort(bins, mma)
                  ELSE Rev(StableSort(bins, mma))
    IN IF inner.out.status = "raised" THEN [out |-> inner.out, arg |-> inner.arg]
       ELSE IF sorted = <<>> THEN [out |-> Raised("IndexError"), arg |-> inner.arg]
       ELSE [out |-> Returned(sorted[1]), arg |-> inner.arg]

\* variant: no bins gives back a placeholder key
getBestBinSentinel(mapping, lowerIsBetter) ==
    LET inner == minMaxAvgPerBin(mapping)
        mma == inner.out.value
        bins == DictKeys(mma)
        sorted == ListSort(bins, mma, ~lowerIsBetter)
    IN IF inner.out.status = "raised" THEN [out |-> inner.out, arg |-> inner.arg]
       ELSE IF sorted = <<>> THEN [out |-> Returned(0), arg |-> inner.arg]
       ELSE [out |-> Returned(sorted[1]), arg |-> inner.arg]

\* variant: the mapping passed in is itself put in sorted order
getBestBinSortsMapping(mapping, lowerIsBetter) ==
    LET inner == minMaxAvgPerBin(mapping)
        mma == inner.out.value
        bins == DictKeys(mma)
        sorted == ListSort(bins, mma, ~lowerIsBetter)
        reordered == [j \in 1..Len(sorted) |-> inner.arg[DictIndex(inner.arg, sorted[j])]]
    IN IF inner.out.status = "raised" THEN [out |-> inner.out, arg |-> inner.arg]
       ELSE IF sorted = <<>> THEN [out |-> Raised("IndexError"), arg |-> inner.arg]
       ELSE [out |-> Returned(sorted[1]), arg |-> reordered]

getBestBin(mapping, lowerIsBetter) ==
    LET inner == minMaxAvgPerBin(mapping)
        mma == inner.out.value
        bins == DictKeys(mma)
        sorted == ListSort(bins, mma, ~lowerIsBetter)
    IN IF inner.out.status = "raised" THEN [out |-> inner.out, arg |-> inner.arg]
       ELSE IF sorted = <<>> THEN [out |-> Raised("IndexError"), arg |-> inner.arg]
       ELSE [out |-> Returned(sorted[1]), arg |-> inner.arg]

\* ---- the state machine ----
\* variant: a bin is declared for every key before the scan
NewDefaultDictPredeclared == [j \in 1..MaxKey |-> [key |-> j, contents |-> <<>>]]

\* defaultdict(list), line 20
NewDefaultDict == <<>>

\* a result the parser could hand over: a well-formed one, with its key and
\* its statistic, or one the binning function cannot read
ResultValues ==
    [id : {0}, k : Keys, v : Values] \cup {[id |-> 0, k |-> Malformed, v |-> 0]}

ResultLists == UNION {[1..n -> ResultValues] : n \in 0..MaxLen}

NoCall == [fn |-> "none", arg |-> <<>>, lowerIsBetter |-> FALSE, out |-> Pending, after |-> <<>>]

\* the mappings a caller passes to minMaxAvgPerBin and getBestBin: the one
\* binResultsBy returned, or one built by hand from it with an empty bin
\* under a new key at some place of the iteration order
HandBuilt(d) ==
    {SubSeq(d, 1, p) \o <<[key |-> key, contents |-> <<>>]>> \o SubSeq(d, p + 1, Len(d)) :
        key \in {x \in Keys : ~DictHas(d, x)}, p \in 0..Len(d)}

CallerMappings == {binnedResults} \cup HandBuilt(binnedResults)

Init ==
    /\ \E s \in ResultLists : results = [j \in 1..Len(s) |-> [s[j] EXCEPT !.id = j]]
    /\ pc = "main"
    /\ i = 0
    /\ binnedLocal = <<>>
    /\ binOut = Pending
    /\ binnedResults = <<>>
    /\ call = NoCall

\* line 20: enter binResultsBy
CallBinResultsBy ==
    /\ pc = "main"
    /\ pc' = "binResultsBy"
    /\ i' = 1
    /\ binnedLocal' = NewDefaultDict
    /\ UNCHANGED <<results, binOut, binnedResults, call>>

\* lines 21-22: one iteration on a result the binning function accepts
BinLoopAppend ==
    /\ pc = "binResultsBy"
    /\ i <= Len(results)
    /\ ~binningFunctionRaises(results[i])
    /\ binnedLocal' = AppendToBin(binnedLocal, binningFunction(results[i]), results[i])
    /\ i' = i + 1
    /\ UNCHANGED <<results, pc, binOut, binnedResults, call>>

\* variant: a result the binning function rejects is passed over
BinLoopRaiseSkips ==
    /\ pc = "binResultsBy"
    /\ i <= Len(results)
    /\ binningFunctionRaises(results[i])
    /\ i' = i + 1
    /\ UNCHANGED <<results, pc, binnedLocal, binOut, binnedResults, call>>

\* line 22: binningFunction raises; nothing catches it, the frame is dropped
BinLoopRaise ==
    /\ pc = "binResultsBy"
    /\ i <= Len(results)
    /\ binningFunctionRaises(results[i])
    /\ binOut' = Raised("AttributeError")
    /\ binnedLocal' = <<>>
    /\ pc' = "failed"
    /\ UNCHANGED <<results, i, binnedResults, call>>

\* line 23: return dict(binnedResults)
BinReturn ==
    /\ pc = "binResultsBy"
    /\ i > Len(results)
    /\ binOut' = Returned(binnedLocal)
    /\ binnedResults' = binnedLocal
    /\ binnedLocal' = <<>>
    /\ pc' = "caller"
    /\ UNCHANGED <<results, i, call>>

\* line 75, or any other call of minMaxAvgPerBin
CallMinMaxAvgPerBin ==
    /\ pc = "caller"
    /\ \E mapping \in CallerMappings :
          LET done == minMaxAvgPerBin(mapping)
          IN /\ call' = [fn |-> "minMaxAvgPerBin", arg |-> mapping, lowerIsBetter |-> FALSE,
                         out |-> done.out, after |-> done.arg]
             /\ binnedResults' = IF mapping = binnedResults THEN done.arg ELSE binnedResults
    /\ pc' = "called"
    /\ UNCHANGED <<results, i, binnedLocal, binOut>>

\* line 76, or any other call of getBestBin
CallGetBestBin ==
    /\ pc = "caller"
    /\ \E mapping \in CallerMappings, lowerIsBetter \in BOOLEAN :
          LET done == getBestBin(mapping, lowerIsBetter)
          IN /\ call' = [fn |-> "getBestBin", arg |-> mapping, lowerIsBetter |-> lowerIsBetter,
                         out |-> done.out, after |-> done.arg]
             /\ binnedResults' = IF mapping = binnedResults THEN done.arg ELSE binnedResults
    /\ pc' = "called"
    /\ UNCHANGED <<results, i, binnedLocal, binOut>>

\* the caller has used the outcome and goes on to its next call
CallerContinues ==
    /\ pc = "called"
    /\ pc' = "caller"
    /\ call' = NoCall
    /\ UNCHANGED <<results, i, binnedLocal, binOut, binnedResults>>

Next ==
    \/ CallBinResultsBy
    \/ BinLoopAppend
    \/ BinLoopRaise
    \/ BinReturn
    \/ CallMinMaxAvgPerBin
    \/ CallGetBestBin
    \/ CallerContinues

Spec == Init /\ [][Next]_vars

\* ---- vocabulary of the properties ----
RECURSIVE SumFrom(_, _)
SumFrom(recs, j) == IF j = 0 THEN 0 ELSE recs[j].v + SumFrom(recs, j - 1)

\* total of the statistic over a list of results
Total(recs) == SumFrom(recs, Len(recs))

\* mean of bin a is below the mean of bin b (both non-empty)
BinMeanBelow(a, b) == Total(a) * Len(b) < Total(b) * Len(a)

BinMeanEqual(a, b) == Total(a) * Len(b) = Total(b) * Len(a)

\* places <<bin, position>> of the mapping d that hold the result r
PlacesOf(d, r) ==
    {pl \in (1..Len(d)) \X (1..Len(results)) :
        pl[2] <= Len(d[pl[1]].contents) /\ d[pl[1]].contents[pl[2]] = r}

NoEmptyBin(d) == \A b \in 1..Len(d) : d[b].contents # <<>>

DistinctKeys(d) == \A a, b \in 1..Len(d) : d[a].key = d[b].key => a = b

FailingPlaces == {j \in 1..Len(results) : binningFunctionRaises(results[j])}

\* index in the input of the first result under the key
FirstSeen(key) == CHOOSE j \in 1..Len(results) :
    /\ results[j].k = key
    /\ \A h \in 1..(j - 1) : results[h].k # key

BinDone == binOut.status = "returned"

CalledMMA == call.fn = "minMaxAvgPerBin"

CalledBest == call.fn = "getBestBin"

\* C1: binResultsBy puts every input result in exactly one place of the
\* mapping it returns, in the bin keyed by the result's own key; the bins
\* hold nothing else, so they are a permutation of the input and two results
\* share a bin exactly when their keys are equal.
C1_Partition ==
    BinDone =>
        LET d == binOut.value IN
        /\ DistinctKeys(d)
        /\ \A j \in 1..Len(results) :
              /\ Cardinality(PlacesOf(d, results[j])) = 1
              /\ \A pl \in PlacesOf(d, results[j]) :
                    d[pl[1]].key = binningFunction(results[j])
        /\ \A b \in 1..Len(d) : \A q \in 1..Len(d[b].contents) :
              \E j \in 1..Len(results) : results[j] = d[b].contents[q]
        /\ \A j, h \in 1..Len(results) :
              (\E b \in 1..Len(d) :
                  /\ \E q \in 1..Len(d[b].contents) : d[b].contents[q] = results[j]
                  /\ \E q \in 1..Len(d[b].contents) : d[b].contents[q] = results[h])
              <=> binningFunction(results[j]) = binningFunction(results[h])

C1_Witness ==
    /\ BinDone
    /\ Len(results) >= 3
    /\ Len(binOut.value) >= 2
    /\ \E b \in 1..Len(binOut.value) : Len(binOut.value[b].contents) >= 2

\* C2: inside every bin returned by binResultsBy the results stand in the
\* order they have in the input.
C2_Stability ==
    BinDone =>
        \A b \in 1..Len(binOut.value) :
            LET c == binOut.value[b].contents IN
            \A q1, q2 \in 1..Len(c) :
                q1 < q2 =>
                    \E j, h \in 1..Len(results) :
                        j < h /\ results[j] = c[q1] /\ results[h] = c[q2]

C2_Witness ==
    /\ BinDone
    /\ Len(results) >= 3
    /\ results[1].k = results[3].k
    /\ results[2].k # results[1].k
    /\ results[1].v # results[3].v

\* C3: on a non-empty mapping of non-empty bins with pairwise distinct means,
\* getBestBin returns the key of the bin with the smallest mean when
\* lowerIsBetter and of the bin with the largest mean otherwise, the means
\* being those minMaxAvgPerBin gives for the same bins.
DistinctMeans(d) ==
    \A a, b \in 1..Len(d) :
        a # b => ~BinMeanEqual(d[a].contents, d[b].contents)

C3_Direction ==
    (/\ CalledBest
     /\ call.arg # <<>>
     /\ NoEmptyBin(call.arg)
     /\ DistinctMeans(call.arg))
    =>
    /\ call.out.status = "returned"
    /\ \E b \in 1..Len(call.arg) :
          /\ call.arg[b].key = call.out.value
          /\ \A a \in 1..Len(call.arg) :
                a # b =>
                    IF call.lowerIsBetter
                    THEN BinMeanBelow(call.arg[b].contents, call.arg[a].contents)
                    ELSE BinMeanBelow(call.arg[a].contents, call.arg[b].contents)
    /\ LET mma == minMaxAvgPerBin(call.arg).out.value
       IN \A a \in 1..Len(mma) :
             mma[a].key # call.out.value =>
                 LET best == DictGet(mma, call.out.value)[MMAAvg + 1]
                     other == mma[a].contents[MMAAvg + 1]
                 IN IF call.lowerIsBetter THEN MeanLess(best, other)
                    ELSE MeanLess(other, best)

C3_Witness ==
    /\ CalledBest
    /\ call.out.status = "returned"
    /\ ~call.lowerIsBetter
    /\ Len(call.arg) >= 2
    /\ DistinctMeans(call.arg)
    /\ call.out.value # call.arg[1].key
    /\ \E b \in 1..Len(call.arg) : Len(call.arg[b].contents) >= 2

\* C4: on a mapping without empty bins minMaxAvgPerBin returns a mapping with
\* the same keys, each mapped to (minimum, maximum, sum over count) of the
\* statistic over the bin, so min <= mean <= max in every bin.
StatValues(recs) == {statFunction(recs[q]) : q \in 1..Len(recs)}

C4_Aggregation ==
    (CalledMMA /\ NoEmptyBin(call.arg))
    =>
    /\ call.out.status = "returned"
    /\ Len(call.out.value) = Len(call.arg)
    /\ {call.out.value[b].key : b \in 1..Len(call.out.value)}
          = {call.arg[b].key : b \in 1..Len(call.arg)}
    /\ \A b \in 1..Len(call.arg) :
          LET recs == call.arg[b].contents
              triple == DictGet(call.out.value, call.arg[b].key)
              mn == triple[MMAMin + 1]
              mx == triple[MMAMax + 1]
              avg == triple[MMAAvg + 1]
          IN /\ mn \in StatValues(recs) /\ \A x \in StatValues(recs) : mn <= x
             /\ mx \in StatValues(recs) /\ \A x \in StatValues(recs) : x <= mx
             /\ avg.den > 0
             /\ avg.num * Len(recs) = Total(recs) * avg.den
             /\ mn * avg.den <= avg.num
             /\ avg.num <= mx * avg.den

C4_Witness ==
    /\ CalledMMA
    /\ call.out.status = "returned"
    /\ Len(call.arg) >= 2
    /\ \E b \in 1..Len(call.arg) :
          LET triple == DictGet(call.out.value, call.arg[b].key)
          IN /\ triple[MMAMin + 1] < triple[MMAMax + 1]
             /\ triple[MMAAvg + 1].den > 1
             /\ statFunction(call.arg[b].contents[1]) # triple[MMAMin + 1]

\* C5: getBestBin on a mapping with no bins raises, whatever lowerIsBetter
\* is; it returns neither a key nor a placeholder.  So binning an empty
\* list and asking for the best bin fails.
C5_EmptyInputError ==
    (CalledBest /\ call.arg = <<>>)
    =>
    /\ call.out.status = "raised"
    /\ call.out.exc = "IndexError"

C5_Witness ==
    /\ results = <<>>
    /\ BinDone
    /\ CalledBest
    /\ call.arg = binOut.value
    /\ call.out.status = "raised"
    /\ call.lowerIsBetter

\* C6: the keys of the mapping binResultsBy returns are exactly the keys
\* the binning function takes on the input; no returned bin is empty, an
\* empty input gives an empty mapping, and minMaxAvgPerBin on that mapping
\* does not meet an empty bin.
C6_BinsDiscovered ==
    BinDone =>
        /\ {binOut.value[b].key : b \in 1..Len(binOut.value)}
              = {binningFunction(results[j]) : j \in 1..Len(results)}
        /\ NoEmptyBin(binOut.value)
        /\ results = <<>> => binOut.value = <<>>
        /\ (CalledMMA /\ call.arg = binOut.value) => call.out.status = "returned"

C6_Witness ==
    /\ BinDone
    /\ CalledMMA
    /\ call.arg = binOut.value
    /\ Len(binOut.value) >= 2
    /\ \E key \in Keys : ~DictHas(binOut.value, key)
    /\ call.out.status = "returned"

\* C7: when a bin of the mapping has no results, minMaxAvgPerBin and
\* getBestBin raise; neither returns a result for that mapping.
C7_EmptyBinRaises ==
    ((CalledMMA \/ CalledBest) /\ ~NoEmptyBin(call.arg)) =>
        /\ call.out.status = "raised"
        /\ call.out.exc = "ValueError"

C7_Witness ==
    /\ CalledMMA
    /\ Len(call.arg) >= 3
    /\ call.arg[1].contents # <<>>
    /\ call.arg[2].contents = <<>>
    /\ call.arg[3].contents # <<>>
    /\ call.out.status = "raised"

\* C8: when the binning function raises on some result, binResultsBy stops
\* at the first such result: it never gets past it, never returns, and the
\* caller receives no mapping.
FirstFailing == CHOOSE j \in FailingPlaces : \A h \in FailingPlaces : j <= h

C8_AccessorFailureStops ==
    /\ FailingPlaces # {} =>
          /\ i <= FirstFailing
          /\ pc \in {"main", "binResultsBy", "failed"}
          /\ binOut.status # "returned"
          /\ binnedResults = <<>>
    /\ binOut.status = "raised" =>
          /\ FailingPlaces # {}
          /\ i = FirstFailing
          /\ pc = "failed"
          /\ binOut.value = <<>>
          /\ binnedLocal = <<>>
    /\ (pc = "binResultsBy" /\ FailingPlaces # {} /\ i = FirstFailing) =>
          ENABLED BinLoopRaise /\ ~ENABLED BinLoopAppend /\ ~ENABLED BinReturn

C8_Witness ==
    /\ binOut.status = "raised"
    /\ Len(results) >= 3
    /\ FailingPlaces = {2}

\* C9: no call changes what it is given: the input list never changes, and
\* a call of minMaxAvgPerBin or getBestBin, returning or raising, leaves the
\* mapping passed in with the same keys and the same lists in the same order.
C9_NoSideEffects ==
    [][/\ results' = results
       /\ call'.fn # "none" => call'.after = call'.arg
       /\ pc \in {"caller", "called"} => binnedResults' = binnedResults]_vars

C9_Witness ==
    /\ CalledBest
    /\ call.out.status = "returned"
    /\ call.arg = binnedResults
    /\ Len(call.arg) >= 2
    /\ call.out.value # call.arg[1].key

\* C10: on a non-empty mapping of non-empty bins getBestBin returns a bin
\* that no other bin beats in the chosen direction, and among the bins that
\* share that mean the one that comes first in the mapping's order, in both
\* directions; for a mapping from binResultsBy that is the tied bin whose key
\* was met first in the input.
Beats(a, b, lowerIsBetter) ==
    IF lowerIsBetter THEN BinMeanBelow(a, b) ELSE BinMeanBelow(b, a)

C10_TieBreak ==
    (/\ CalledBest
     /\ call.arg # <<>>
     /\ NoEmptyBin(call.arg))
    =>
    /\ call.out.status = "returned"
    /\ \E b \in 1..Len(call.arg) :
          /\ call.arg[b].key = call.out.value
          /\ \A a \in 1..Len(call.arg) :
                /\ ~Beats(call.arg[a].contents, call.arg[b].contents, call.lowerIsBetter)
                /\ a < b => ~BinMeanEqual(call.arg[a].contents, call.arg[b].contents)
                /\ (/\ call.arg = binOut.value
                    /\ a # b
                    /\ BinMeanEqual(call.arg[a].contents, call.arg[b].contents))
                   => FirstSeen(call.arg[b].key) < FirstSeen(call.arg[a].key)

C10_Witness ==
    /\ CalledBest
    /\ call.out.status = "returned"
    /\ ~call.lowerIsBetter
    /\ call.arg = binOut.value
    /\ Len(call.arg) >= 3
    /\ \E b, a, c \in 1..Len(call.arg) :
          /\ call.arg[b].key = call.out.value
          /\ a # b
          /\ BinMeanEqual(call.arg[a].contents, call.arg[b].contents)
          /\ BinMeanBelow(call.arg[c].contents, call.arg[b].contents)
          /\ c < b

====
